---- MODULE Spec2Model ----
(***************************************************************************)
(* SLAD: prototype-based GNN classifier (src/slad_model.py).               *)
(*                                                                         *)
(* Tensors are modelled by what the code observes of them:                 *)
(*   - a feature matrix is [device, width, rows]; rows is the sequence of  *)
(*     its rows, each row named by an integer (row i of a batch is i, a    *)
(*     row synthesised by SMOTE is SyntheticRow);                          *)
(*   - a label vector is [device, vals], vals a sequence over {0, 1};      *)
(*   - inside SLADGNN.forward the later tensors are [device, shape].       *)
(* calculate_similarity is also modelled on values, over integer vectors,  *)
(* with ln(num / den) kept as the exact fraction [num, den].               *)
(***************************************************************************)
EXTENDS Integers, Sequences, FiniteSets

VARIABLES cuda_available, model, args, last

vars == <<cuda_available, model, args, last>>

----------------------------------------------------------------------------
(* Bounds of the explored inputs *)

MaxN == 5
MaxScale == 2
MaxCoord == 2
MaxBatch == 4
MaxHeads == 2
MaxHidden == 2
MaxFeat == 2
MaxProto == 2
MaxOut == 2

BatchSizes == 1..MaxN
ScaleFactors == 0..MaxScale
SampleMethods == {"SMOTE", "copy", "other"}
Devices == {"cpu", "cuda"}
Coords == 0..MaxCoord
EmbeddingDims == {1, 2}
NodeCounts == {1, 2}
PrototypeCounts == {1, 2}
GNNTypes == {"gcn", "gat", "gtc", "sage"}
ActivationNames == {"relu", "leaky_relu", "gelu", "tanh"}
Modes == {"train", "eval"}
LayerCounts == {1, 2}
HiddenSizes == UNION {[1..l -> 1..MaxHidden] : l \in LayerCounts}
ClassCounts == {2}
MlpInputDims == {2}

\* the devices a tensor can be on, given torch.cuda.is_available()
DevicesFor(cuda) == IF cuda THEN Devices ELSE {"cpu"}

LabelVectors(n) == [1..n -> {0, 1}]

\* the rows of a batch of n rows: row i is named i
BatchRows(n) == [i \in 1..n |-> i]

----------------------------------------------------------------------------
(* Sequence helpers for the torch primitives the code uses *)

\* torch.sum(labels == v).item()
Count(vals, v) == Cardinality({i \in 1..Len(vals) : vals[i] = v})

\* torch.where(labels == v)[0]: the indices carrying v, ascending
RECURSIVE Where(_, _, _)
Where(vals, v, i) ==
    IF i > Len(vals) THEN <<>>
    ELSE IF vals[i] = v THEN <<i>> \o Where(vals, v, i + 1)
    ELSE Where(vals, v, i + 1)

\* tensor.repeat(k) on a 1-D tensor: the whole tensor, k times over
RECURSIVE Repeat(_, _)
Repeat(seq, k) == IF k <= 0 THEN <<>> ELSE seq \o Repeat(seq, k - 1)

\* features[selected_indices]
Gather(rows, idx) == [j \in 1..Len(idx) |-> rows[idx[j]]]

\* torch.ones(k) * v
Filled(k, v) == [j \in 1..k |-> v]

----------------------------------------------------------------------------
(* balance_features_labels *)

\* the name of a row synthesised by SMOTE (no row of the input batch)
SyntheticRow == 0

\* variant of line 14 with <= for <: a tie selects label 0
MinorityLabel_tie0(count_0, count_1) == IF count_0 <= count_1 THEN 0 ELSE 1

\* line 14
MinorityLabel(count_0, count_1) == IF count_0 < count_1 THEN 0 ELSE 1

\* variant of line 17 with < for <=: a single minority row is oversampled
IsNoOp_strict(m, over_sample_scale_factor) ==
    m < 1 \/ over_sample_scale_factor = 0

\* line 17
IsNoOp(m, over_sample_scale_factor) ==
    m <= 1 \/ over_sample_scale_factor = 0

\* lines 22-23
NNeighbor(m, over_sample_scale_factor) ==
    IF m - 1 < over_sample_scale_factor THEN m - 1 ELSE over_sample_scale_factor

\* SMOTE(sampling_strategy={label: target}, k_neighbors=k).fit_resample(X, y):
\* a dict strategy gives the number of samples the class has AFTER resampling;
\* the input comes back first, the new samples are stacked after it.
SMOTE_fit_resample(X, y, label, target, k) ==
    LET have == Count(y, label)
    IN  IF target < have \/ k < 1 \/ k + 1 > have
        THEN [ok |-> FALSE, X |-> <<>>, y |-> <<>>]
        ELSE [ok |-> TRUE,
              X |-> X \o Filled(target - have, SyntheticRow),
              y |-> y \o Filled(target - have, label)]

NoSmote == [used |-> FALSE, target |-> 0, k |-> 0]

Returns(features, labels, smote) ==
    [kind |-> "return", features |-> features, labels |-> labels, smote |-> smote]

Raises(error) == [kind |-> "raise", error |-> error]

\* falling off the end of the function: Python returns None
ReturnsNone == [kind |-> "None"]

\* lines 11-15: the locals minority_label and minority_indices
minority(labels) ==
    LET count_0 == Count(labels.vals, 0)
        count_1 == Count(labels.vals, 1)
        minority_label == MinorityLabel(count_0, count_1)
    IN  [label |-> minority_label, indices |-> Where(labels.vals, minority_label, 1)]

balance_features_labels(features, labels, over_sample_scale_factor, sample_method, cuda) ==
    LET minority_label == minority(labels).label
        minority_indices == minority(labels).indices
        m == Len(minority_indices)
    IN  IF IsNoOp(m, over_sample_scale_factor)
        THEN Returns(features, labels, NoSmote)
        ELSE IF sample_method = "SMOTE"
        THEN LET n_neighbor == NNeighbor(m, over_sample_scale_factor)
                 target == m * over_sample_scale_factor
                 res == SMOTE_fit_resample(features.rows, labels.vals,
                                           minority_label, target, n_neighbor)
                 device == IF cuda THEN "cuda" ELSE "cpu"
             IN  IF ~res.ok THEN Raises("ValueError")
                 ELSE Returns([device |-> device, width |-> features.width, rows |-> res.X],
                              [device |-> device, vals |-> res.y],
                              [used |-> TRUE, target |-> target, k |-> n_neighbor])
        ELSE IF sample_method = "copy"
        THEN LET selected_indices == Repeat(minority_indices, over_sample_scale_factor)
                 selected_features == Gather(features.rows, selected_indices)
                 added_labels ==
                     [device |-> IF cuda THEN "cuda" ELSE "cpu",
                      vals |-> Filled(m * over_sample_scale_factor, minority_label)]
             IN  IF added_labels.device # labels.device
                 THEN Raises("RuntimeError")
                 ELSE Returns([features EXCEPT !.rows = @ \o selected_features],
                              [labels EXCEPT !.vals = @ \o added_labels.vals],
                              NoSmote)
        ELSE ReturnsNone

----------------------------------------------------------------------------
(* calculate_similarity, on values *)

\* 1 / epsilon, epsilon = 1e-4
EpsilonInv == 10000

RECURSIVE SumOver(_, _)
SumOver(v, i) == IF i > Len(v) THEN 0 ELSE v[i] + SumOver(v, i + 1)

Abs(x) == IF x < 0 THEN -x ELSE x

\* variant of line 63 with the 1-norm for the squared 2-norm
AbsNorm(v) == SumOver([i \in 1..Len(v) |-> Abs(v[i])], 1)

\* torch.norm(v, dim=-1) ** 2: the sum of the squares of the coordinates
SquaredNorm(v) == SumOver([i \in 1..Len(v) |-> v[i] * v[i]], 1)

\* tensor.expand(.., m) of a row: a row of width 1 is repeated m times, a
\* row of width m is kept
ExpandRow(row, m) == IF Len(row) = m THEN row ELSE [i \in 1..m |-> row[1]]

\* (distance + 1) / (distance + epsilon), the argument of torch.log, as an
\* exact fraction: the similarity is ln(num / den)
SimilarityRatio(distance) ==
    [num |-> (distance + 1) * EpsilonInv, den |-> distance * EpsilonInv + 1]

calculate_similarity(node_embedding, prototypes) ==
    LET n == Len(node_embedding)
        m == Len(node_embedding[1])
        k == Len(prototypes)
        pw == Len(prototypes[1])
    IN  IF pw # m /\ pw # 1
        THEN [kind |-> "raise", error |-> "RuntimeError"]
        ELSE [kind |-> "return",
              similarity_matrix |->
                [i \in 1..n |->
                  [j \in 1..k |->
                    LET node_expanded == node_embedding[i]
                        prototypes_expanded == ExpandRow(prototypes[j], m)
                        distance == SquaredNorm([c \in 1..m |->
                                       node_expanded[c] - prototypes_expanded[c]])
                    IN  SimilarityRatio(distance)]]]

----------------------------------------------------------------------------
(* Graph encoders, MLPReadout and SLADGNN *)

None == [kind |-> "None"]

RecognizedActivations == {"relu", "leaky_relu", "gelu"}

\* a graph-convolution layer, by the widths it is built with; it maps rows of
\* width in_channels to rows of width out_channels * heads
Conv(in_channels, out_channels, heads) ==
    [in_channels |-> in_channels, out_channels |-> out_channels, heads |-> heads]

ConvOutWidth(conv) == conv.out_channels * conv.heads

\* lines 69-75
MultiLayerGCN(num_features, hidden_sizes, activation_fuc) ==
    [kind |-> "MultiLayerGCN",
     activation |-> activation_fuc,
     layers |-> [i \in 1..Len(hidden_sizes) |->
                   IF i = 1 THEN Conv(num_features, hidden_sizes[1], 1)
                   ELSE Conv(hidden_sizes[i - 1], hidden_sizes[i], 1)]]

\* lines 90-99
MultiLayerGAT(in_features, hidden_dims, activation_fuc, num_head) ==
    [kind |-> "MultiLayerGAT",
     activation |-> activation_fuc,
     layers |-> [i \in 1..Len(hidden_dims) |->
                   IF i = 1 THEN Conv(in_features, hidden_dims[1], num_head)
                   ELSE Conv(hidden_dims[i - 1] * num_head, hidden_dims[i], num_head)]]

\* lines 114-123
MultiLayerGTC(in_features, hidden_dims, num_head) ==
    [kind |-> "MultiLayerGTC",
     layers |-> [i \in 1..Len(hidden_dims) |->
                   IF i = 1 THEN Conv(in_features, hidden_dims[1], num_head)
                   ELSE Conv(hidden_dims[i - 1] * num_head, hidden_dims[i], num_head)],
     layerNormList |-> [i \in 1..Len(hidden_dims) |-> hidden_dims[i] * num_head]]

\* conv(x, edge_index): fails on a device or width mismatch, else gives one
\* row per node, of the layer's output width
ApplyConv(conv, x, device) ==
    IF x.device # device \/ x.width # conv.in_channels
    THEN [ok |-> FALSE, x |-> x]
    ELSE [ok |-> TRUE, x |-> [x EXCEPT !.width = ConvOutWidth(conv)]]

\* the loop of MultiLayerGCN.forward / MultiLayerGAT.forward from layer i on:
\* a layer is applied only inside one of the three activation branches
RECURSIVE ActivatedLayers(_, _, _, _, _)
ActivatedLayers(enc, x, device, i, applied) ==
    IF i > Len(enc.layers) THEN [kind |-> "return", x |-> x, applied |-> applied]
    ELSE IF enc.activation \in RecognizedActivations
    THEN LET c == ApplyConv(enc.layers[i], x, device)
         IN  IF ~c.ok THEN [kind |-> "raise", error |-> "RuntimeError"]
             ELSE ActivatedLayers(enc, c.x, device, i + 1, applied + 1)
    ELSE ActivatedLayers(enc, x, device, i + 1, applied)

\* the loop of MultiLayerGTC.forward from layer i on: convolution, then the
\* layer's LayerNorm
RECURSIVE NormalizedLayers(_, _, _, _, _)
NormalizedLayers(enc, x, device, i, applied) ==
    IF i > Len(enc.layers) THEN [kind |-> "return", x |-> x, applied |-> applied]
    ELSE LET c == ApplyConv(enc.layers[i], x, device)
         IN  IF ~c.ok \/ c.x.width # enc.layerNormList[i]
             THEN [kind |-> "raise", error |-> "RuntimeError"]
             ELSE NormalizedLayers(enc, c.x, device, i + 1, applied + 1)

\* self.GNN(data)
GNN_forward(enc, x, device) ==
    IF enc.kind = "MultiLayerGTC" THEN NormalizedLayers(enc, x, device, 1, 0)
    ELSE ActivatedLayers(enc, x, device, 1, 0)

\* MLPReadout's default n_layers
DefaultNLayers == 1

RECURSIVE Pow2(_)
Pow2(n) == IF n = 0 THEN 1 ELSE 2 * Pow2(n - 1)

Linear(in_features, out_features) ==
    [in_features |-> in_features, out_features |-> out_features]

\* lines 133-140
MLPReadout(input_dim, output_dim) ==
    [kind |-> "MLPReadout",
     n_layers |-> DefaultNLayers,
     fc_layers |-> [n \in 1..(DefaultNLayers + 1) |->
                     IF n <= DefaultNLayers
                     THEN Linear(input_dim \div Pow2(n - 1), input_dim \div Pow2(n))
                     ELSE Linear(input_dim \div Pow2(DefaultNLayers), output_dim)]]

\* lines 142-149 on a [device, shape] tensor of two dimensions
RECURSIVE MLP_layers(_, _, _, _)
MLP_layers(mlp, y, device, n) ==
    IF n > Len(mlp.fc_layers) THEN [kind |-> "return", y |-> y]
    ELSE IF y.device # device \/ y.shape[2] # mlp.fc_layers[n].in_features
    THEN [kind |-> "raise", error |-> "RuntimeError"]
    ELSE MLP_layers(mlp, [y EXCEPT !.shape[2] = mlp.fc_layers[n].out_features],
                    device, n + 1)

MLPReadout_forward(mlp, x, device) == MLP_layers(mlp, x, device, 1)

Parameter(shape) == [kind |-> "Parameter", shape |-> shape]

Sigmoid == [kind |-> "Sigmoid"]

\* the object after super().__init__(): no attribute of SLADGNN set yet
Bare ==
    [status |-> "ok", device |-> "cpu",
     GNN |-> None, prototype_layer |-> None, mlp |-> None, sigmoid |-> None]

\* lines 178-194
SelectEncoder(self, cfg) ==
    IF cfg.GNN_type = "gcn"
    THEN [self EXCEPT
            !.GNN = MultiLayerGCN(cfg.num_features, cfg.hidden_sizes, cfg.activation_fuc),
            !.prototype_layer = Parameter(<<cfg.num_classes, cfg.num_prototypes_per_class,
                                            cfg.hidden_sizes[Len(cfg.hidden_sizes)]>>),
            !.mlp = MLPReadout(cfg.mlp_input_dim, cfg.mlp_output_dim)]
    ELSE IF cfg.GNN_type = "gat"
    THEN [self EXCEPT
            !.GNN = MultiLayerGAT(cfg.num_features, cfg.hidden_sizes, cfg.activation_fuc,
                                  cfg.gnn_head_num),
            !.prototype_layer = Parameter(<<cfg.num_classes, cfg.num_prototypes_per_class,
                                            cfg.hidden_sizes[Len(cfg.hidden_sizes)]
                                              * cfg.gnn_head_num>>),
            !.mlp = MLPReadout(cfg.mlp_input_dim, cfg.mlp_output_dim)]
    ELSE IF cfg.GNN_type = "gtc"
    THEN [self EXCEPT
            !.GNN = MultiLayerGTC(cfg.num_features, cfg.hidden_sizes, cfg.gnn_head_num),
            !.prototype_layer = Parameter(<<cfg.num_classes, cfg.num_prototypes_per_class,
                                            cfg.hidden_sizes[Len(cfg.hidden_sizes)]
                                              * cfg.gnn_head_num>>),
            !.mlp = MLPReadout(cfg.mlp_input_dim, cfg.mlp_output_dim)]
    ELSE [self EXCEPT !.status = "ValueError"]

\* variant of lines 178-195 with self.mlp hoisted above the GNN_type branches
SLADGNN_init_head_first(cfg) ==
    LET self == SelectEncoder(
                  [Bare EXCEPT !.mlp = MLPReadout(cfg.mlp_input_dim, cfg.mlp_output_dim)],
                  cfg)
    IN  IF self.status = "ok" THEN [self EXCEPT !.sigmoid = Sigmoid] ELSE self

\* lines 173-195: the object as __init__ leaves it, returning or raising
SLADGNN_init(cfg) ==
    LET self == SelectEncoder(Bare, cfg)
    IN  IF self.status = "ok" THEN [self EXCEPT !.sigmoid = Sigmoid] ELSE self

\* calculate_similarity on [device, shape] tensors: the shape and device
\* checks of expand, of the subtraction and of the result
similarity_shape(node_embedding, prototypes) ==
    LET n == Len(node_embedding.rows)
        m == node_embedding.width
        k == prototypes.shape[1]
        pw == prototypes.shape[2]
    IN  IF (pw # m /\ pw # 1) \/ node_embedding.device # prototypes.device
        THEN [kind |-> "raise", error |-> "RuntimeError"]
        ELSE [kind |-> "return",
              similarity_matrix |-> [device |-> node_embedding.device, shape |-> <<n, k>>]]

\* tensor.squeeze(): every dimension of size 1 is dropped
Squeeze(shape) == SelectSeq(shape, LAMBDA d : d # 1)

NotCalled == [kind |-> "not called"]

ForwardRaises(error, encoded, balanced) ==
    [kind |-> "raise", error |-> error, encoded |-> encoded, balanced |-> balanced]

\* lines 204-208, on the x and y that reach them
ForwardTail(self, x, y, encoded, balanced) ==
    LET prot == self.prototype_layer.shape
        reshaped_prot_layer == [device |-> self.device,
                                shape |-> <<prot[1] * prot[2], prot[3]>>]
        sim == similarity_shape(x, reshaped_prot_layer)
    IN  IF sim.kind = "raise" THEN ForwardRaises(sim.error, encoded, balanced)
        ELSE LET out == MLPReadout_forward(self.mlp, sim.similarity_matrix, self.device)
             IN  IF out.kind = "raise" THEN ForwardRaises(out.error, encoded, balanced)
                 ELSE [kind |-> "return",
                       encoded |-> encoded,
                       balanced |-> balanced,
                       probabilities |-> [device |-> out.y.device,
                                          shape |-> Squeeze(out.y.shape)],
                       labels |-> [device |-> y.device, vals |-> y.vals,
                                   shape |-> <<Len(y.vals)>>]]

\* lines 197-208
SLADGNN_forward(self, data, mode, over_sample_scale_factor, sample_method, cuda) ==
    LET encoded == GNN_forward(self.GNN, data.x, self.device)
    IN  IF encoded.kind = "raise" THEN ForwardRaises(encoded.error, encoded, NotCalled)
        ELSE IF mode = "train"
        THEN LET balanced == balance_features_labels(encoded.x, data.y,
                                over_sample_scale_factor, sample_method, cuda)
             IN  IF balanced.kind = "None"
                 THEN ForwardRaises("TypeError", encoded, balanced)
                 ELSE IF balanced.kind = "raise"
                 THEN ForwardRaises(balanced.error, encoded, balanced)
                 ELSE ForwardTail(self, balanced.features, balanced.labels,
                                  encoded, balanced)
        ELSE ForwardTail(self, encoded.x, data.y, encoded, NotCalled)

----------------------------------------------------------------------------
(* State *)
(*   cuda_available  torch.cuda.is_available() of the process              *)
(*   model           the SLADGNN object under construction / constructed   *)
(*   args            the arguments of the pending call of a pure function  *)
(*   last            the call made and its outcome                         *)

NoModel == [status |-> "none"]
NoArgs == [op |-> "none"]
NoCall == [op |-> "none"]

BalanceArgs(cuda) ==
    { [op |-> "balance",
       features |-> [device |-> dev, width |-> w, rows |-> BatchRows(Len(vals))],
       labels |-> [device |-> dev, vals |-> vals],
       scale |-> s,
       method |-> method] :
      dev \in DevicesFor(cuda), w \in EmbeddingDims,
      vals \in UNION {LabelVectors(n) : n \in BatchSizes},
      s \in ScaleFactors, method \in SampleMethods }

\* a direct call of balance_features_labels on the pending arguments
BalanceCall ==
    /\ args.op = "balance"
    /\ last = NoCall
    /\ last' = [op |-> "balance",
                minority |-> minority(args.labels),
                out |-> balance_features_labels(args.features, args.labels, args.scale,
                                                args.method, cuda_available)]
    /\ UNCHANGED <<cuda_available, model, args>>

InitBalancer ==
    /\ cuda_available \in BOOLEAN
    /\ model = NoModel
    /\ args \in BalanceArgs(cuda_available)
    /\ last = NoCall

NextBalancer == BalanceCall

SpecBalancer == InitBalancer /\ [][NextBalancer]_vars

\* the n x d matrices over Coords
Matrices(n, d) == [1..n -> [1..d -> Coords]]

SimilarityArgs ==
    { [op |-> "similarity", node_embedding |-> x, prototypes |-> p] :
      x \in UNION {Matrices(n, d) : n \in NodeCounts, d \in EmbeddingDims},
      p \in UNION {Matrices(k, d) : k \in PrototypeCounts, d \in EmbeddingDims} }

\* a direct call of calculate_similarity on the pending arguments
SimilarityCall ==
    /\ args.op = "similarity"
    /\ last = NoCall
    /\ last' = [op |-> "similarity",
                out |-> calculate_similarity(args.node_embedding, args.prototypes)]
    /\ UNCHANGED <<cuda_available, model, args>>

InitSimilarity ==
    /\ cuda_available \in BOOLEAN
    /\ model = NoModel
    /\ args \in SimilarityArgs
    /\ last = NoCall

NextSimilarity == SimilarityCall

SpecSimilarity == InitSimilarity /\ [][NextSimilarity]_vars

Configs ==
    [gnn_head_num : 1..MaxHeads,
     activation_fuc : ActivationNames,
     GNN_type : GNNTypes,
     num_features : 1..MaxFeat,
     hidden_sizes : HiddenSizes,
     num_classes : ClassCounts,
     num_prototypes_per_class : 1..MaxProto,
     mlp_input_dim : MlpInputDims,
     mlp_output_dim : 1..MaxOut]

\* SLADGNN(...): on the pending constructor arguments if there are any, else
\* on any configuration
Construct ==
    /\ model = NoModel
    /\ args.op \in {"none", "init"}
    /\ last = NoCall
    /\ \E cfg \in (IF args.op = "init" THEN {args.cfg} ELSE Configs) :
          model' = SLADGNN_init(cfg)
    /\ UNCHANGED <<cuda_available, args, last>>

\* model.to(device) of torch.nn.Module: every parameter moves to the device
ModuleTo ==
    /\ model.status = "ok"
    /\ last = NoCall
    /\ \E device \in DevicesFor(cuda_available) \ {model.device} :
          model' = [model EXCEPT !.device = device]
    /\ UNCHANGED <<cuda_available, args, last>>

\* the graph batches: n nodes of one feature width with 0/1 labels, on one device
Batches(cuda) ==
    { [x |-> [device |-> dev, width |-> w, rows |-> BatchRows(Len(vals))],
       y |-> [device |-> dev, vals |-> vals]] :
      dev \in DevicesFor(cuda), w \in 1..MaxFeat,
      vals \in UNION {LabelVectors(n) : n \in 1..MaxBatch} }

\* model(data, mode, over_sample_scale_factor, sample_method, output)
Forward ==
    /\ model.status = "ok"
    /\ last = NoCall
    /\ \E data \in Batches(cuda_available), mode \in Modes,
          s \in ScaleFactors, method \in SampleMethods :
          last' = [op |-> "forward",
                   data |-> data,
                   mode |-> mode,
                   scale |-> s,
                   method |-> method,
                   out |-> SLADGNN_forward(model, data, mode, s, method, cuda_available)]
    /\ UNCHANGED <<cuda_available, model, args>>

Init ==
    /\ cuda_available \in BOOLEAN
    /\ model = NoModel
    /\ args = NoArgs
    /\ last = NoCall

Next == Construct \/ ModuleTo \/ Forward

Spec == Init /\ [][Next]_vars

InitConstruct ==
    /\ cuda_available \in BOOLEAN
    /\ model = NoModel
    /\ args \in {[op |-> "init", cfg |-> cfg] : cfg \in Configs}
    /\ last = NoCall

NextConstruct == Construct \/ ModuleTo

SpecConstruct == InitConstruct /\ [][NextConstruct]_vars

----------------------------------------------------------------------------
(* Properties of balance_features_labels *)

Min(a, b) == IF a < b THEN a ELSE b

\* the number of members of the smaller class of a 0/1 label vector
MinorityCount(vals) == Min(Count(vals, 0), Count(vals, 1))

Balanced == args.op = "balance" /\ last.op = "balance"

InRows == args.features.rows
InVals == args.labels.vals
InN == Len(InVals)

\* C1: a call with a minority class of at most one member, or with scale
\* factor 0, returns the input features and labels themselves (same values,
\* same length, same order, same device), whatever the sample_method.
C1_NoOp ==
    (Balanced /\ (MinorityCount(InVals) <= 1 \/ args.scale = 0))
        => /\ last.out.kind = "return"
           /\ last.out.features = args.features
           /\ last.out.labels = args.labels

C1_Witness ==
    /\ Balanced
    /\ MinorityCount(InVals) = 1
    /\ args.scale = MaxScale
    /\ args.method = "copy"
    /\ last.out.kind = "return"

\* C2 (as claimed): every copy-mode call with minority count m >= 2 and
\* scale s >= 1 returns n + m*s rows and labels, the input as a prefix, every
\* appended label the minority label, appended row j the (j mod m)-th
\* minority row of the input.
C2_CopyAppends ==
    (Balanced /\ args.method = "copy" /\ MinorityCount(InVals) >= 2 /\ args.scale >= 1)
        => LET m == MinorityCount(InVals)
               idx == last.minority.indices
               out == last.out
           IN  /\ out.kind = "return"
               /\ Len(out.features.rows) = InN + m * args.scale
               /\ Len(out.labels.vals) = InN + m * args.scale
               /\ SubSeq(out.features.rows, 1, InN) = InRows
               /\ SubSeq(out.labels.vals, 1, InN) = InVals
               /\ \A j \in 0..(m * args.scale - 1) :
                     /\ out.labels.vals[InN + j + 1] = last.minority.label
                     /\ out.features.rows[InN + j + 1] = InRows[idx[(j % m) + 1]]

\* C6 (as claimed): in SMOTE and copy mode the call places what it adds on
\* the device of its input, so it returns features and labels that are all
\* on the input's device.
C6_SameDevice ==
    (Balanced /\ args.method \in {"SMOTE", "copy"}
              /\ MinorityCount(InVals) >= 2 /\ args.scale >= 1)
        => /\ last.out.kind = "return"
           /\ last.out.features.device = args.features.device
           /\ last.out.labels.device = args.labels.device

\* the label the claim C8 says is selected: the strictly rarer one, 0 on a tie
ClaimedMinority(vals) == IF Count(vals, 0) <= Count(vals, 1) THEN 0 ELSE 1

\* the label the code selects: the strictly rarer one, 1 on a tie
AmendedMinority(vals) ==
    IF Count(vals, 0) < Count(vals, 1) THEN 0
    ELSE IF Count(vals, 1) < Count(vals, 0) THEN 1
    ELSE 1

\* the rows a returned batch has after the input rows
AppendedRows == { last.out.features.rows[j] : j \in (InN + 1)..Len(last.out.features.rows) }
AppendedLabels == { last.out.labels.vals[j] : j \in (InN + 1)..Len(last.out.labels.vals) }

SelectedIs(label) ==
    /\ last.minority.label = label
    /\ \A i \in 1..InN :
          (InVals[i] = label) <=> (\E j \in 1..Len(last.minority.indices) : last.minority.indices[j] = i)
    /\ (last.out.kind = "return" /\ Len(last.out.labels.vals) > InN)
          => AppendedLabels = {label}
    /\ (last.out.kind = "return" /\ args.method = "copy" /\ Len(last.out.features.rows) > InN)
          => AppendedRows = { InRows[i] : i \in {i \in 1..InN : InVals[i] = label} }

\* C8 (as claimed): the minority label is the strictly rarer of 0 and 1, and
\* 0 on a tie; the oversampled rows are exactly the rows carrying it.
C8_TieTowardZero == Balanced => SelectedIs(ClaimedMinority(InVals))

\* C8 (amended): the minority label is the strictly rarer of 0 and 1, and 1
\* on a tie; the oversampled rows are exactly the rows carrying it.
C8_TieTowardOne == Balanced => SelectedIs(AmendedMinority(InVals))

C8_Witness ==
    /\ Balanced
    /\ Count(InVals, 0) = 2 /\ Count(InVals, 1) = 2
    /\ args.method = "copy" /\ args.scale = 1
    /\ last.out.kind = "return"
    /\ last.minority.label = 1
    /\ Len(last.out.features.rows) = InN + 2

\* C9 (as claimed): every SMOTE-mode call with minority count m >= 2 and
\* scale s >= 1 adds m*s synthetic minority samples (n + m*s rows, m + m*s
\* minority labels) with k = min(m - 1, s), 1 <= k <= m - 1.
C9_SmoteAdds ==
    (Balanced /\ args.method = "SMOTE" /\ MinorityCount(InVals) >= 2 /\ args.scale >= 1)
        => LET m == MinorityCount(InVals)
               out == last.out
           IN  /\ out.kind = "return"
               /\ out.smote.used
               /\ out.smote.k = Min(m - 1, args.scale)
               /\ 1 <= out.smote.k /\ out.smote.k <= m - 1
               /\ Len(out.features.rows) = InN + m * args.scale
               /\ Count(out.labels.vals, last.minority.label) = m + m * args.scale

----------------------------------------------------------------------------
(* Properties of calculate_similarity *)

Compared == args.op = "similarity" /\ last.op = "similarity"

\* the squared Euclidean distance of two vectors of one width
RECURSIVE SqDist(_, _, _)
SqDist(x, p, i) ==
    IF i > Len(x) THEN 0
    ELSE (x[i] - p[i]) * (x[i] - p[i]) + SqDist(x, p, i + 1)

\* a / b < c / d for a, c >= 0 and b, d > 0, by Euclid's algorithm (no product
\* of two numerators is formed)
RECURSIVE FracLess(_, _, _, _)
FracLess(a, b, c, d) ==
    LET q1 == a \div b
        q2 == c \div d
        r1 == a % b
        r2 == c % d
    IN  IF q1 # q2 THEN q1 < q2
        ELSE IF r2 = 0 THEN FALSE
        ELSE IF r1 = 0 THEN TRUE
        ELSE FracLess(d, r2, b, r1)

FracEq(a, b, c, d) == ~FracLess(a, b, c, d) /\ ~FracLess(c, d, a, b)

SameWidth == Len(args.node_embedding[1]) = Len(args.prototypes[1])

Pairs == (1..Len(args.node_embedding)) \X (1..Len(args.prototypes))

PairDist(pr) == SqDist(args.node_embedding[pr[1]], args.prototypes[pr[2]], 1)

PairRatio(pr) == last.out.similarity_matrix[pr[1]][pr[2]]

\* C10: for node embeddings and prototypes of one width the call returns one
\* row per node and one column per prototype; the entry of a pair at squared
\* Euclidean distance d is ln of the ratio (d + 1) / (d + eps), eps = 1e-4;
\* the ratio is > 1, is 1 / eps at d = 0, and is strictly smaller for a
\* strictly larger d.
C10_Similarity ==
    (Compared /\ SameWidth)
        => /\ last.out.kind = "return"
           /\ Len(last.out.similarity_matrix) = Len(args.node_embedding)
           /\ \A i \in 1..Len(args.node_embedding) :
                 Len(last.out.similarity_matrix[i]) = Len(args.prototypes)
           /\ \A pr \in Pairs :
                 LET r == PairRatio(pr)
                     d == PairDist(pr)
                 IN  /\ r.den > 0
                     /\ FracEq(r.num, r.den, (d + 1) * EpsilonInv, d * EpsilonInv + 1)
                     /\ FracLess(1, 1, r.num, r.den)
                     /\ (d = 0) => FracEq(r.num, r.den, EpsilonInv, 1)
           /\ \A pr \in Pairs, qr \in Pairs :
                 (PairDist(pr) < PairDist(qr))
                     => FracLess(PairRatio(qr).num, PairRatio(qr).den,
                                 PairRatio(pr).num, PairRatio(pr).den)

C10_Witness ==
    /\ Compared /\ SameWidth
    /\ last.out.kind = "return"
    /\ Len(args.node_embedding[1]) = 2
    /\ \E pr \in Pairs, qr \in Pairs, zr \in Pairs :
          /\ PairDist(zr) = 0
          /\ 0 < PairDist(pr) /\ PairDist(pr) < PairDist(qr)
          /\ PairDist(qr) = 2 * MaxCoord * MaxCoord

----------------------------------------------------------------------------
(* Properties of SLADGNN *)

SupportedGNNTypes == {"gcn", "gat", "gtc"}

Constructed == args.op = "init" /\ model.status # "none"

\* C4: constructing SLADGNN with a GNN_type other than "gcn", "gat", "gtc"
\* raises, and the object then has no encoder, no prototype bank and no MLP
\* head.
C4_UnsupportedTypeRaises ==
    (Constructed /\ args.cfg.GNN_type \notin SupportedGNNTypes)
        => /\ model.status = "ValueError"
           /\ model.GNN = None
           /\ model.prototype_layer = None
           /\ model.mlp = None

C4_Witness ==
    /\ Constructed
    /\ args.cfg.GNN_type = "sage"
    /\ model.status = "ValueError"

Forwarded == model.status = "ok" /\ last.op = "forward"

FwdVals == last.data.y.vals
FwdN == Len(FwdVals)

\* C3 (as claimed): a forward call that returns yields probabilities and
\* labels that are both 1-D and of one length: n outside train mode, n + m*s
\* in train mode with "copy", minority count m >= 2 and scale s >= 1.
C3_OneDimSameLength ==
    (Forwarded /\ last.out.kind = "return")
        => LET probabilities == last.out.probabilities.shape
               labels == last.out.labels.shape
               m == MinorityCount(FwdVals)
           IN  /\ Len(probabilities) = 1
               /\ Len(labels) = 1
               /\ probabilities = labels
               /\ (last.mode # "train") => (labels = <<FwdN>>)
               /\ (last.mode = "train" /\ last.method = "copy" /\ m >= 2 /\ last.scale >= 1)
                     => (labels = <<FwdN + m * last.scale>>)

\* C5 (as claimed): a train-mode forward whose sample_method is neither
\* "SMOTE" nor "copy", with a nonzero scale factor and a minority class of
\* at least 2, has its balancer call rejected with an error; the balancer
\* never returns None and the forward never fails on the missing pair.
C5_OtherMethodRejected ==
    (Forwarded /\ last.mode = "train" /\ last.method \notin {"SMOTE", "copy"}
               /\ last.scale >= 1 /\ MinorityCount(FwdVals) >= 2
               /\ last.out.encoded.kind = "return")
        => /\ last.out.balanced.kind = "raise"
           /\ ~(last.out.kind = "raise" /\ last.out.error = "TypeError")

\* the output width an encoder is built for
BuiltWidth(enc) == ConvOutWidth(enc.layers[Len(enc.layers)])

\* C7 (as claimed): on a batch of the model's input width and device, whatever
\* the activation name, the encoder applies all of its layers and its output
\* width is hidden_sizes[-1] (times the head count for gat and gtc), the
\* width of the prototype bank.
C7_EncoderWidth ==
    (Forwarded /\ last.data.x.device = model.device
               /\ last.data.x.width = model.GNN.layers[1].in_channels)
        => /\ last.out.encoded.kind = "return"
           /\ last.out.encoded.applied = Len(model.GNN.layers)
           /\ last.out.encoded.x.width = BuiltWidth(model.GNN)
           /\ last.out.encoded.x.width = model.prototype_layer.shape[3]

====
